---- MODULE Spec2Model ----
(***************************************************************************)
(* A model of mtg-proxies: the Scryfall card database queries and print    *)
(* recommender (src/scryfall/scryfall.py) and the decklist parser          *)
(* (src/mtgproxies/decklists/decklist.py).                                 *)
(*                                                                         *)
(* Python strings are sequences of one-character strings, so that lower(), *)
(* strip(), indexing and the regular expression act on characters.         *)
(* An optional value is a sequence of length 0 (None / key absent) or 1.   *)
(***************************************************************************)
EXTENDS Integers, Sequences, FiniteSets, TLC

VARIABLES
    db,             \* the list returned by _get_database(): card records in database order
    call,           \* the call being made on the database / recommender, with its arguments
    result,         \* what the call returned or raised
    card,           \* scorer: the record being scored
    points,         \* scorer: score(card), or -1 before the first call
    prev,           \* scorer: the record scored before the last flip
    prevPoints,     \* scorer: its score
    stream,         \* parser: the lines read from the stream so far
    entries,        \* parser: Decklist.entries
    ok,             \* parser: the success flag
    sanitized,      \* parser: for each line read, whether validate_card_name was called on it
    ppc,            \* parser: "reading" inside the for loop, "returned" after return
    tpc,            \* loader: each thread's position in _get_database / get_file / rate_limit
    lruCache,       \* loader: the names the lru_cache wrapper holds a result for
    lock,           \* loader: holder of the module's _lock (0: free)
    fileOnDisk,     \* loader: the bulk file in the on-disk cache: "absent", "partial", "complete"
    loads,          \* loader: how many times the body of _get_database was entered
    callsLeft       \* loader: calls each thread may still make

recVars == <<db, call, result>>
scoreVars == <<card, points, prev, prevPoints>>
parseVars == <<stream, entries, ok, sanitized, ppc>>
loadVars == <<tpc, lruCache, lock, fileOnDisk, loads, callsLeft>>
vars == <<recVars, scoreVars, parseVars, loadVars>>

(***************************************************************************)
(* Bounds                                                                  *)
(***************************************************************************)
MaxDb == 3          \* records in the database
MaxLines == 2       \* lines in the parsed stream
MaxCalls == 2       \* calls of get_cards per thread
MaxThreads == 2     \* threads calling get_cards

(***************************************************************************)
(* Optional values and strings                                             *)
(***************************************************************************)
None == <<>>
Some(x) == <<x>>

LowerChar(c) ==
    CASE c = "A" -> "a"
      [] c = "B" -> "b"
      [] c = "O" -> "o"
      [] c = "R" -> "r"
      [] c = "N" -> "n"
      [] c = "P" -> "p"
      [] c = "S" -> "s"
      [] c = "Z" -> "z"
      [] OTHER -> c

\* str.lower()
Lower(s) == [i \in 1..Len(s) |-> LowerChar(s[i])]

IsSpace(c) == c \in {" ", "\n", "\t"}
IsDigit(c) == c \in {"0", "1", "2", "3", "4", "5", "6", "7", "8", "9"}

(***************************************************************************)
(* Card records.  A record is a mapping of field name to value; the        *)
(* optional fields oracle_id and frame_effects are None when the key is    *)
(* absent from the record.                                                 *)
(***************************************************************************)
OptionalKeys == {"oracle_id", "frame_effects"}

\* `key in card`
HasKey(c, key) == key \in DOMAIN c /\ (key \in OptionalKeys => c[key] # None)

\* `card[key]`, for a key the record has
Field(c, key) == IF key \in OptionalKeys THEN c[key][1] ELSE c[key]

MB1 == <<"m", "b", "1">>
RNA == <<"r", "n", "a">>
EN == <<"e", "n">>
JA == <<"j", "a">>

MkCard(name, set, number, oid, frame, digital, border, effects, nonfoil, highres, lang) ==
    [name |-> name, set |-> set, collector_number |-> number, oracle_id |-> oid,
     frame |-> frame, digital |-> digital, border_color |-> border,
     frame_effects |-> effects, nonfoil |-> nonfoil, highres_image |-> highres,
     lang |-> lang]

(***************************************************************************)
(* get_cards / get_card                                                    *)
(***************************************************************************)
\* FilterCards comparing the stored value without lower()
RECURSIVE FilterCardsCaseSensitive(_, _, _)
FilterCardsCaseSensitive(cards, key, value) ==
    IF cards = <<>> THEN <<>>
    ELSE LET c == Head(cards)
             rest == FilterCardsCaseSensitive(Tail(cards), key, value)
         IN IF HasKey(c, key) /\ Field(c, key) = value
            THEN <<c>> \o rest
            ELSE rest

\* [card for card in cards if key in card and card[key].lower() == value]
RECURSIVE FilterCards(_, _, _)
FilterCards(cards, key, value) ==
    IF cards = <<>> THEN <<>>
    ELSE LET c == Head(cards)
             rest == FilterCards(Tail(cards), key, value)
         IN IF HasKey(c, key) /\ Lower(Field(c, key)) = value
            THEN <<c>> \o rest
            ELSE rest

\* The loop over kwargs.items(): kwargs is a sequence of <<key, optional value>>.
RECURSIVE get_cards(_, _)
get_cards(cards, kwargs) ==
    IF kwargs = <<>> THEN cards
    ELSE LET key == Head(kwargs)[1]
             value == Head(kwargs)[2]
         IN IF value # None
            THEN get_cards(FilterCards(cards, key, Lower(value[1])), Tail(kwargs))
            ELSE get_cards(cards, Tail(kwargs))

get_card(cards, card_name, set_id, collector_number) ==
    LET found == get_cards(cards, << <<"name", Some(card_name)>>, <<"set", set_id>>,
                                     <<"collector_number", collector_number>> >>)
    IN IF Len(found) > 0 THEN Some(found[1]) ELSE None

(***************************************************************************)
(* recommend_print                                                         *)
(***************************************************************************)
\* score testing the collector number for the suffix 'p' only
score_promoSuffixOnly(c) ==
      (IF c.set # MB1 THEN 1 ELSE 0)
    + (IF c.frame = "2015" THEN 2 ELSE 0)
    + (IF ~c.digital THEN 4 ELSE 0)
    + (IF c.border_color = "black"
          /\ (~HasKey(c, "frame_effects") \/ "extendedart" \notin Field(c, "frame_effects"))
       THEN 8 ELSE 0)
    + (IF c.collector_number[Len(c.collector_number)] \notin {"p"} /\ c.nonfoil
       THEN 16 ELSE 0)
    + (IF c.highres_image THEN 32 ELSE 0)
    + (IF c.lang = EN THEN 64 ELSE 0)

score(c) ==
      (IF c.set # MB1 THEN 1 ELSE 0)
    + (IF c.frame = "2015" THEN 2 ELSE 0)
    + (IF ~c.digital THEN 4 ELSE 0)
    + (IF c.border_color = "black"
          /\ (~HasKey(c, "frame_effects") \/ "extendedart" \notin Field(c, "frame_effects"))
       THEN 8 ELSE 0)
    + (IF c.collector_number[Len(c.collector_number)] \notin {"p", "s"} /\ c.nonfoil
       THEN 16 ELSE 0)
    + (IF c.highres_image THEN 32 ELSE 0)
    + (IF c.lang = EN THEN 64 ELSE 0)

Scores(alternatives) == [i \in 1..Len(alternatives) |-> score(alternatives[i])]

\* np.max of a non-empty sequence
NpMax(scores) == CHOOSE m \in {scores[i] : i \in 1..Len(scores)} :
                     \A i \in 1..Len(scores) : scores[i] <= m

\* An argmax that returns the last index of the maximum
NpArgmaxLast(scores) == CHOOSE i \in 1..Len(scores) :
                            /\ scores[i] = NpMax(scores)
                            /\ \A j \in (i + 1)..Len(scores) : scores[j] # scores[i]

\* np.argmax of a non-empty sequence: the first index of the maximum
NpArgmax(scores) == CHOOSE i \in 1..Len(scores) :
                        /\ scores[i] = NpMax(scores)
                        /\ \A j \in 1..(i - 1) : scores[j] # scores[i]

\* list.index: the first position of an equal element, 0 when there is none
\* (where list.index raises ValueError)
ListIndex(list, x) ==
    IF \E i \in 1..Len(list) : list[i] = x
    THEN CHOOSE i \in 1..Len(list) : list[i] = x /\ \A j \in 1..(i - 1) : list[j] # x
    ELSE 0

\* np.argsort(scores): an index order that sorts the scores ascending.  The
\* default kind is not a stable sort, so the order of equal scores is any.
ArgsortResults(scores) ==
    {p \in [1..Len(scores) -> 1..Len(scores)] :
        /\ \A i, j \in 1..Len(scores) : i # j => p[i] # p[j]
        /\ \A i \in 1..(Len(scores) - 1) : scores[p[i]] <= scores[p[i + 1]]}

\* list(np.array(alternatives)[order][::-1])
TakeReversed(alternatives, order) ==
    [i \in 1..Len(alternatives) |-> alternatives[order[Len(alternatives) + 1 - i]]]

\* list.remove: drops the first equal element
ListRemove(list, x) ==
    LET k == ListIndex(list, x)
    IN [i \in 1..(Len(list) - 1) |-> IF i < k THEN list[i] ELSE list[i + 1]]

Return(value) == [outcome |-> "return", none |-> FALSE, cards |-> value]
ReturnNone == [outcome |-> "return", none |-> TRUE, cards |-> <<>>]
Raise(exc) == [outcome |-> exc, none |-> FALSE, cards |-> <<>>]
NoResult == [outcome |-> "pending", none |-> FALSE, cards |-> <<>>]

\* current, as recommend_print computes it
CurrentPrint(cards, card_name, set_id, collector_number) ==
    IF set_id # None /\ collector_number # None
    THEN get_card(cards, card_name, set_id, collector_number)
    ELSE None

Alternatives(cards, card_name, oracle_id) ==
    get_cards(cards, << <<"name", Some(card_name)>>, <<"oracle_id", oracle_id>> >>)

\* mode == "best"
recommend_best(cards, card_name, set_id, collector_number, oracle_id) ==
    LET current == CurrentPrint(cards, card_name, set_id, collector_number)
        alternatives == Alternatives(cards, card_name, oracle_id)
        scores == Scores(alternatives)
    IN IF current # None /\ ListIndex(alternatives, current[1]) = 0
       THEN Raise("ValueError")        \* alternatives.index(current)
       ELSE IF current # None
               /\ scores[ListIndex(alternatives, current[1])] = NpMax(scores)
       THEN ReturnNone
       ELSE IF Len(alternatives) = 0
       THEN Raise("ValueError")        \* np.argmax of an empty sequence
       ELSE Return(<<alternatives[NpArgmax(scores)]>>)

\* mode == "all" leaving the current print at its sorted position
recommend_all_unpinned(cards, card_name, set_id, collector_number, oracle_id, order) ==
    Return(TakeReversed(Alternatives(cards, card_name, oracle_id), order))

\* mode == "all"; order is what np.argsort(scores) returned
recommend_all(cards, card_name, set_id, collector_number, oracle_id, order) ==
    LET current == CurrentPrint(cards, card_name, set_id, collector_number)
        alternatives == Alternatives(cards, card_name, oracle_id)
        sorted == TakeReversed(alternatives, order)
    IN IF current # None
       THEN Return(<<current[1]>> \o (IF ListIndex(sorted, current[1]) # 0
                                     THEN ListRemove(sorted, current[1])
                                     ELSE sorted))
       ELSE Return(sorted)

(***************************************************************************)
(* The records databases are drawn from                                     *)
(***************************************************************************)
NameAb == <<"A", "b">>
NameBa == <<"B", "a">>
Oid1 == <<"o", "1">>
Oid2 == <<"o", "2">>

\* Every combination of the fields the scorer reads.
AllCards ==
    {MkCard(NameAb, set, number, Some(Oid1), frame, digital, border, effects,
            nonfoil, highres, lang) :
        set \in {MB1, RNA},
        number \in {<<"1">>, <<"1", "p">>, <<"2", "s">>},
        frame \in {"2015", "1997"},
        digital \in BOOLEAN,
        border \in {"black", "borderless"},
        effects \in {None, Some({}), Some({"extendedart"}), Some({"legendary"})},
        nonfoil \in BOOLEAN,
        highres \in BOOLEAN,
        lang \in {EN, JA}}

\* The prints a database is built from: four prints named "Ab" (two oracle
\* ids, one record without the key) and one of another card.
CardPool ==
    { MkCard(NameAb, RNA, <<"1">>, Some(Oid1), "2015", FALSE, "black", None, TRUE, TRUE, EN),
      MkCard(NameAb, MB1, <<"2">>, Some(Oid1), "2015", FALSE, "black", Some({}), TRUE, TRUE, EN),
      MkCard(NameAb, RNA, <<"7">>, Some(Oid2), "2015", FALSE, "black", None, TRUE, TRUE, EN),
      MkCard(NameAb, RNA, <<"1", "p">>, None, "2015", TRUE, "black", Some({"extendedart"}),
             TRUE, FALSE, EN),
      MkCard(NameBa, RNA, <<"1">>, Some(<<"o", "3">>), "1997", FALSE, "black", None, TRUE,
             TRUE, JA) }

RECURSIVE SeqsUpTo(_, _)
SeqsUpTo(S, n) ==
    IF n = 0 THEN {<<>>}
    ELSE LET shorter == SeqsUpTo(S, n - 1)
         IN shorter \cup {Append(q, x) : q \in {r \in shorter : Len(r) = n - 1}, x \in S}

Databases == SeqsUpTo(CardPool, MaxDb)

\* Arguments of the calls
ArgNames == {<<"a", "b">>, NameBa, <<"Z", "z">>}
ArgSets == {None, Some(<<"R", "N", "A">>), Some(MB1)}
ArgNumbers == {None, Some(<<"1">>), Some(<<"1", "P">>), Some(<<"7">>)}
ArgOracleIds == {None, Some(<<"O", "1">>), Some(Oid2)}

NoCall == [op |-> "none", card_name |-> <<>>, set_id |-> None, collector_number |-> None,
           oracle_id |-> None]
MkCall(op, card_name, set_id, collector_number, oracle_id) ==
    [op |-> op, card_name |-> card_name, set_id |-> set_id,
     collector_number |-> collector_number, oracle_id |-> oracle_id]

RecIdle == db = <<>> /\ call = NoCall /\ result = NoResult
ScoreIdle == card = None /\ points = -1 /\ prev = None /\ prevPoints = -1
ParseIdle == /\ stream = <<>>
             /\ entries = <<>>
             /\ ok = TRUE
             /\ sanitized = <<>>
             /\ ppc = "reading"
LoadIdle == /\ tpc = <<>>
            /\ lruCache = {}
            /\ lock = 0
            /\ fileOnDisk = "absent"
            /\ loads = 0
            /\ callsLeft = <<>>

(***************************************************************************)
(* The scorer alone: score a record, then flip one field and score again.  *)
(***************************************************************************)
InitScore ==
    /\ card \in {Some(c) : c \in AllCards}
    /\ points = -1
    /\ prev = None
    /\ prevPoints = -1
    /\ RecIdle /\ ParseIdle /\ LoadIdle

ScoreCard ==
    /\ points = -1
    /\ points' = score(card[1])
    /\ UNCHANGED <<card, prev, prevPoints, recVars, parseVars, loadVars>>

ScoredFields == {"set", "frame", "digital", "border_color", "frame_effects",
                 "collector_number", "nonfoil", "highres_image", "lang"}

FlipField ==
    /\ points # -1
    /\ prev = None
    /\ \E c \in AllCards :
          /\ Cardinality({f \in ScoredFields : c[f] # card[1][f]}) = 1
          /\ prev' = card
          /\ prevPoints' = points
          /\ card' = Some(c)
          /\ points' = score(c)
    /\ UNCHANGED <<recVars, parseVars, loadVars>>

NextScore == ScoreCard \/ FlipField
SpecScore == InitScore /\ [][NextScore]_vars

(***************************************************************************)
(* Calls on a loaded database                                              *)
(***************************************************************************)
InitRec ==
    /\ db \in Databases
    /\ call = NoCall
    /\ result = NoResult
    /\ ScoreIdle /\ ParseIdle /\ LoadIdle

GetCards ==
    /\ call = NoCall
    /\ \E n \in ArgNames \cup {<<>>}, s \in ArgSets, o \in ArgOracleIds :
          /\ call' = MkCall("get_cards", n, s, None, o)
          /\ result' = Return(get_cards(db, << <<"name", IF n = <<>> THEN None ELSE Some(n)>>,
                                               <<"set", s>>, <<"oracle_id", o>> >>))
    /\ UNCHANGED <<db, scoreVars, parseVars, loadVars>>

GetCard ==
    /\ call = NoCall
    /\ \E n \in ArgNames, s \in ArgSets, c \in ArgNumbers :
          /\ call' = MkCall("get_card", n, s, c, None)
          /\ result' = LET found == get_card(db, n, s, c)
                       IN IF found = None THEN ReturnNone ELSE Return(found)
    /\ UNCHANGED <<db, scoreVars, parseVars, loadVars>>

RecommendBest ==
    /\ call = NoCall
    /\ \E n \in ArgNames, s \in ArgSets, c \in ArgNumbers, o \in ArgOracleIds :
          /\ call' = MkCall("best", n, s, c, o)
          /\ result' = recommend_best(db, n, s, c, o)
    /\ UNCHANGED <<db, scoreVars, parseVars, loadVars>>

RecommendAll ==
    /\ call = NoCall
    /\ \E n \in ArgNames, s \in ArgSets, c \in ArgNumbers, o \in ArgOracleIds :
          \E order \in ArgsortResults(Scores(Alternatives(db, n, o))) :
              /\ call' = MkCall("all", n, s, c, o)
              /\ result' = recommend_all(db, n, s, c, o, order)
    /\ UNCHANGED <<db, scoreVars, parseVars, loadVars>>

NextRec == GetCards \/ GetCard \/ RecommendBest \/ RecommendAll
SpecRec == InitRec /\ [][NextRec]_vars

(***************************************************************************)
(* Properties of the scorer                                                *)
(***************************************************************************)
\* The seven listed conditions, by weight exponent 0..6.
Condition(c, axis) ==
    CASE axis = 0 -> c.set # MB1
      [] axis = 1 -> c.frame = "2015"
      [] axis = 2 -> c.digital = FALSE
      [] axis = 3 -> c.border_color = "black"
                     /\ ~(c.frame_effects # None /\ "extendedart" \in c.frame_effects[1])
      [] axis = 4 -> Len(c.collector_number) > 0
                     /\ c.collector_number[Len(c.collector_number)] # "p"
                     /\ c.collector_number[Len(c.collector_number)] # "s"
                     /\ c.nonfoil = TRUE
      [] axis = 5 -> c.highres_image = TRUE
      [] axis = 6 -> c.lang = EN

Axes == 0..6
Weight(axis) == 2 ^ axis

RECURSIVE WeightSum(_)
WeightSum(S) == IF S = {} THEN 0
                ELSE LET a == CHOOSE x \in S : TRUE IN Weight(a) + WeightSum(S \ {a})

HoldingAxes(c) == {a \in Axes : Condition(c, a)}

\* The flip from prev to card turned exactly `axis` from false to true.
FlippedUp(axis) ==
    /\ prev # None
    /\ ~Condition(prev[1], axis)
    /\ Condition(card[1], axis)
    /\ \A a \in Axes \ {axis} : Condition(prev[1], a) = Condition(card[1], a)

\* C4: the score is the sum of the weights 1, 2, 4, 8, 16, 32, 64 of the listed
\* conditions that hold; it lies in 0..127; and turning a single condition from
\* false to true, the others fixed, raises it by exactly that condition's weight.
C4_ScoreIsWeightSum ==
    points # -1 =>
        /\ points = WeightSum(HoldingAxes(card[1]))
        /\ points \in 0..127
        /\ \A a \in Axes : FlippedUp(a) => points = prevPoints + Weight(a)

C4_Witness ==
    /\ points # -1
    /\ FlippedUp(4)
    /\ HoldingAxes(prev[1]) = {0, 2, 6}
    /\ points = 85

(***************************************************************************)
(* Properties of the database queries and the recommender                  *)
(***************************************************************************)
\* Whether record r passes a filter on `key`: ignored when the value is None,
\* else the field is present and equals the value ignoring case.
Passes(r, key, value) ==
    value # None => /\ r[key] # None
                    /\ Lower(IF key = "oracle_id" THEN r[key][1] ELSE r[key]) = Lower(value[1])

\* The positions of db whose record passes the call's filters.
MatchingPositions ==
    {i \in 1..Len(db) :
        /\ call.card_name # <<>> => Passes(db[i], "name", Some(call.card_name))
        /\ Passes(db[i], "set", call.set_id)
        /\ Passes(db[i], "collector_number", call.collector_number)
        /\ Passes(db[i], "oracle_id", call.oracle_id)}

\* The k-th smallest element of a set of positions
Nth(S, k) == CHOOSE i \in S : Cardinality({j \in S : j < i}) = k - 1

\* The positions of the alternatives of a recommend_print call
AlternativePositions ==
    {i \in 1..Len(db) : /\ Passes(db[i], "name", Some(call.card_name))
                        /\ Passes(db[i], "oracle_id", call.oracle_id)}

\* The positions of the records the exact lookup of the current print matches
CurrentPositions ==
    {i \in 1..Len(db) : /\ Passes(db[i], "name", Some(call.card_name))
                        /\ Passes(db[i], "set", call.set_id)
                        /\ Passes(db[i], "collector_number", call.collector_number)}

CurrentKnown ==
    /\ call.set_id # None
    /\ call.collector_number # None
    /\ CurrentPositions # {}

TheCurrent == db[Nth(CurrentPositions, 1)]

IsMaxScore(n) == /\ \E i \in AlternativePositions : score(db[i]) = n
                 /\ \A i \in AlternativePositions : score(db[i]) <= n

\* C7: get_cards returns exactly the records that pass every filter whose value
\* is not None (field present, equal ignoring case), an empty list when there is
\* none; get_card returns the first of them, or None.
C7_GetCardsFilters ==
    /\ call.op = "get_cards" =>
          /\ result.outcome = "return"
          /\ ~result.none
          /\ Len(result.cards) = Cardinality(MatchingPositions)
          /\ \A k \in 1..Len(result.cards) : result.cards[k] = db[Nth(MatchingPositions, k)]
    /\ call.op = "get_card" =>
          IF MatchingPositions = {}
          THEN result = ReturnNone
          ELSE result = Return(<<db[Nth(MatchingPositions, 1)]>>)

\* get_cards found two records through filters that differ in case from the
\* stored values, and left out a record that lacks the filtered key.
C7_Witness ==
    /\ call.op = "get_cards"
    /\ call.oracle_id = Some(<<"O", "1">>)
    /\ call.card_name = <<"a", "b">>
    /\ Len(result.cards) = 2
    /\ \E i \in 1..Len(db) : db[i].name = NameAb /\ db[i].oracle_id = None

\* C1: in mode "best", when the current print is resolved and its score equals
\* the maximum score among the alternatives, the call returns None.
C1_BestKeepsOptimalCurrent ==
    (call.op = "best" /\ CurrentKnown /\ IsMaxScore(score(TheCurrent)))
        => result = ReturnNone

\* C3: with no record matching the name (and oracle_id), mode "best" returns None
\* and mode "all" returns the empty sequence, or only the current print when one
\* is known; the call does not fail.
C3_NoAlternatives ==
    AlternativePositions = {} =>
        /\ call.op = "best" => result = ReturnNone
        /\ call.op = "all" =>
              result = Return(IF CurrentKnown THEN <<TheCurrent>> ELSE <<>>)

\* How many elements of a sequence equal x
Count(seq, x) == Cardinality({i \in 1..Len(seq) : seq[i] = x})

\* C2: in mode "all" with a resolved current print, the result starts with the
\* current print whatever its score, and the elements after it are the remaining
\* alternatives in non-increasing score order.
C2_AllPinsCurrentFirst ==
    (call.op = "all" /\ CurrentKnown) =>
        /\ result.outcome = "return"
        /\ ~result.none
        /\ Len(result.cards) >= 1
        /\ result.cards[1] = TheCurrent
        /\ LET rest == Tail(result.cards)
               inAlternatives == \E i \in AlternativePositions : db[i] = TheCurrent
           IN /\ \A i \in 1..(Len(rest) - 1) : score(rest[i]) >= score(rest[i + 1])
              /\ Len(rest) = Cardinality(AlternativePositions)
                                - (IF inAlternatives THEN 1 ELSE 0)
              /\ \A r \in CardPool :
                    Count(rest, r) = Cardinality({i \in AlternativePositions : db[i] = r})
                                     - (IF inAlternatives /\ r = TheCurrent THEN 1 ELSE 0)

\* The current print scores below both other alternatives and is still first.
C2_Witness ==
    /\ call.op = "all"
    /\ CurrentKnown
    /\ Len(result.cards) = 3
    /\ result.cards[1] = TheCurrent
    /\ score(result.cards[1]) < score(result.cards[3])
    /\ score(result.cards[3]) < score(result.cards[2])

\* C10: a record returned in mode "best" is an alternative whose score is at
\* least that of every alternative, and the first such in database order.
C10_BestIsFirstMaximum ==
    (call.op = "best" /\ result.outcome = "return" /\ ~result.none) =>
        /\ Len(result.cards) = 1
        /\ \E i \in AlternativePositions :
              /\ result.cards[1] = db[i]
              /\ \A j \in AlternativePositions : score(db[j]) <= score(db[i])
              /\ \A j \in AlternativePositions : j < i => score(db[j]) < score(db[i])

\* Two different alternatives tie for the maximum, the current print scores
\* lower, and the earlier of the two is returned.
C10_Witness ==
    /\ call.op = "best"
    /\ result.outcome = "return"
    /\ ~result.none
    /\ CurrentKnown
    /\ \E i, j \in AlternativePositions :
          /\ i < j
          /\ db[i] # db[j]
          /\ score(db[i]) = score(db[j])
          /\ IsMaxScore(score(db[i]))
          /\ result.cards[1] = db[i]

(***************************************************************************)
(* The decklist parser                                                     *)
(***************************************************************************)
AllSpace(s, a, b) == \A x \in a..b : IsSpace(s[x])
AllNonSpace(s, a, b) == \A x \in a..b : ~IsSpace(s[x])
AllDigits(s, a, b) == \A x \in a..b : IsDigit(s[x])
AllDot(s, a, b) == \A x \in a..b : s[x] # "\n"

\* The ways  (?:\s+\((\S*)\)\s+(\S+))  followed by  \s*$  matches from position l:
\* <<p, q, r, t>> with "(" at p, ")" at q, the number at r..t-1.
SuffixMatches(s, l) ==
    LET n == Len(s)
    IN UNION {
         UNION {
           UNION {
             {<<p, q, r, t>> : t \in {t \in (r + 1)..(n + 1) :
                                        AllNonSpace(s, r, t - 1) /\ AllSpace(s, t, n)}}
             : r \in {r \in (q + 2)..n : AllSpace(s, q + 1, r - 1)}}
           : q \in {q \in (p + 1)..n : AllNonSpace(s, p + 1, q - 1) /\ s[q] = ")"}}
         : p \in {p \in (l + 1)..n : AllSpace(s, l, p - 1) /\ s[p] = "("}}

\* Whether the rest of the pattern after the name matches from position l
TailMatches(s, l) == SuffixMatches(s, l) # {} \/ AllSpace(s, l, Len(s))

\* The ways  ([0-9]+)\s+(.+?)  matches with the rest matching after it:
\* <<i, j, k, l>> with the count at i..j-1 and the name at k..l-1.
HeadMatches(s) ==
    LET n == Len(s)
    IN UNION {
         UNION {
           UNION {
             {<<i, j, k, l>> : l \in {l \in (k + 1)..(n + 1) :
                                        AllDot(s, k, l - 1) /\ TailMatches(s, l)}}
             : k \in {k \in (j + 1)..n : AllSpace(s, j, k - 1)}}
           : j \in {j \in (i + 1)..n : AllDigits(s, i, j - 1)}}
         : i \in 1..n}

\* The order in which the backtracking matcher tries them: leftmost start, then
\* greedy count, greedy \s+, lazy name.
TriedBefore(a, b) ==
    \/ a[1] < b[1]
    \/ a[1] = b[1] /\ a[2] > b[2]
    \/ a[1] = b[1] /\ a[2] = b[2] /\ a[3] > b[3]
    \/ a[1] = b[1] /\ a[2] = b[2] /\ a[3] = b[3] /\ a[4] < b[4]

\* re.search(r'([0-9]+)\s+(.+?)(?:\s+\((\S*)\)\s+(\S+))?\s*$', line): None, or
\* the start of the match and its four groups (groups 3 and 4 optional).
LineMatch(s) ==
    IF HeadMatches(s) = {} THEN None
    ELSE LET h == CHOOSE a \in HeadMatches(s) :
                      \A b \in HeadMatches(s) : a = b \/ TriedBefore(a, b)
             suffixes == SuffixMatches(s, h[4])
         IN IF suffixes # {}
            THEN LET g == CHOOSE a \in suffixes : \A b \in suffixes : a[2] >= b[2]
                 IN Some([start |-> h[1],
                          count |-> SubSeq(s, h[1], h[2] - 1),
                          card_name |-> SubSeq(s, h[3], h[4] - 1),
                          set_id |-> Some(SubSeq(s, g[1] + 1, g[2] - 1)),
                          collector_number |-> Some(SubSeq(s, g[3], g[4] - 1))])
            ELSE Some([start |-> h[1],
                       count |-> SubSeq(s, h[1], h[2] - 1),
                       card_name |-> SubSeq(s, h[3], h[4] - 1),
                       set_id |-> None,
                       collector_number |-> None])

DigitValue(c) ==
    CASE c = "0" -> 0 [] c = "1" -> 1 [] c = "2" -> 2 [] c = "3" -> 3 [] c = "4" -> 4
      [] c = "5" -> 5 [] c = "6" -> 6 [] c = "7" -> 7 [] c = "8" -> 8 [] c = "9" -> 9

\* int() of a string of decimal digits
RECURSIVE ToInt(_)
ToInt(digits) ==
    IF digits = <<>> THEN 0
    ELSE 10 * ToInt(SubSeq(digits, 1, Len(digits) - 1)) + DigitValue(digits[Len(digits)])

\* str.strip()
Strip(s) ==
    LET solid == {x \in 1..Len(s) : ~IsSpace(s[x])}
    IN IF solid = {} THEN <<>>
       ELSE SubSeq(s, CHOOSE a \in solid : \A x \in solid : a <= x,
                      CHOOSE b \in solid : \A x \in solid : b >= x)

\* sanitizing.validate_card_name: the canonical name of a recognised card, or None
validate_card_name(cards, card_name) ==
    LET known == {i \in 1..Len(cards) : Lower(cards[i].name) = Lower(card_name)}
    IN IF known = {} THEN None
       ELSE Some(cards[CHOOSE i \in known : \A j \in known : i <= j].name)

\* sanitizing.validate_print: the exact print when set and number are given and
\* found, else the best print of the card
validate_print(cards, card_name, set_id, collector_number) ==
    LET exact == CurrentPrint(cards, card_name, set_id, collector_number)
    IN IF exact # None THEN exact
       ELSE LET best == recommend_best(cards, card_name, None, None, None)
            IN IF best.outcome = "return" /\ ~best.none THEN Some(best.cards[1]) ELSE None

CardEntry(count, c) == [kind |-> "card", count |-> count, card |-> c]
CommentEntry(text) == [kind |-> "comment", text |-> text]

\* The loop body clearing the flag on every line that becomes a comment
ParseLine_flagOnAnyComment(cards, flag, line) ==
    LET m == LineMatch(line)
    IN IF m # None /\ validate_card_name(cards, m[1].card_name) # None
       THEN [entry |-> CardEntry(ToInt(m[1].count),
                                 validate_print(cards,
                                                validate_card_name(cards, m[1].card_name)[1],
                                                m[1].set_id, m[1].collector_number)),
             ok |-> flag, called |-> TRUE]
       ELSE [entry |-> CommentEntry(Strip(line)), ok |-> FALSE, called |-> m # None]

\* The body of the loop of parse_decklist_stream for one line: the entry it
\* appends, the flag after it, and whether validate_card_name was called.
ParseLine(cards, flag, line) ==
    LET m == LineMatch(line)
    IN IF m # None
       THEN LET count == ToInt(m[1].count)
                name == validate_card_name(cards, m[1].card_name)
            IN IF name = None
               THEN [entry |-> CommentEntry(Strip(line)), ok |-> FALSE, called |-> TRUE]
               ELSE [entry |-> CardEntry(count, validate_print(cards, name[1], m[1].set_id,
                                                               m[1].collector_number)),
                     ok |-> flag, called |-> TRUE]
       ELSE [entry |-> CommentEntry(Strip(line)), ok |-> flag, called |-> FALSE]

\* The lines a stream is made of
Lines ==
    { <<"4", " ", "A", "b", "\n">>,
      <<"0", " ", "A", "b", "\n">>,
      <<"1", "2", " ", "a", "b">>,
      <<"/", "/", " ", "4", " ", "A", "b", "\n">>,
      <<"/", "/", " ", "x", "\n">>,
      <<"4", " ", "x", "\n">>,
      <<"2", " ", "A", "b", " ", "(", "R", "N", "A", ")", " ", "7", "\n">>,
      <<"2", " ", "A", "b", " ", "(", ")", " ", "1", "\n">>,
      <<" ", "4", "\n">>,
      <<"\n">> }

ParseDb ==
    << MkCard(NameAb, MB1, <<"2">>, Some(Oid1), "2015", FALSE, "black", Some({}), TRUE, TRUE, EN),
       MkCard(NameAb, RNA, <<"7">>, Some(Oid2), "2015", FALSE, "black", None, TRUE, TRUE, EN),
       MkCard(NameBa, RNA, <<"1">>, Some(<<"o", "3">>), "1997", FALSE, "black", None, TRUE,
              TRUE, JA) >>

InitParse ==
    /\ stream = <<>>
    /\ entries = <<>>
    /\ ok = TRUE
    /\ sanitized = <<>>
    /\ ppc = "reading"
    /\ db \in {ParseDb, SubSeq(ParseDb, 3, 3)}
    /\ call = NoCall
    /\ result = NoResult
    /\ ScoreIdle /\ LoadIdle

\* One iteration of `for line in stream`
ReadLine ==
    /\ ppc = "reading"
    /\ Len(stream) < MaxLines
    /\ \E line \in Lines :
          LET step == ParseLine(db, ok, line)
          IN /\ stream' = Append(stream, line)
             /\ entries' = Append(entries, step.entry)
             /\ ok' = step.ok
             /\ sanitized' = Append(sanitized, step.called)
    /\ UNCHANGED <<ppc, recVars, scoreVars, loadVars>>

\* The stream is exhausted: return decklist, ok
ReturnDecklist ==
    /\ ppc = "reading"
    /\ ppc' = "returned"
    /\ UNCHANGED <<stream, entries, ok, sanitized, recVars, scoreVars, loadVars>>

NextParse == ReadLine \/ ReturnDecklist
SpecParse == InitParse /\ [][NextParse]_vars

\* C5: every line is processed, and the flag is false exactly when some line
\* matched the pattern and its name failed sanitization; a line that does not
\* match becomes a Comment Entry and does not change the flag.
C5_FlagIffSanitizationFailed ==
    /\ Len(entries) = Len(stream)
    /\ ok = FALSE <=>
          \E i \in 1..Len(stream) :
              /\ LineMatch(stream[i]) # None
              /\ validate_card_name(db, LineMatch(stream[i])[1].card_name) = None
    /\ \A i \in 1..Len(stream) :
          LineMatch(stream[i]) = None =>
              i <= Len(entries) /\ entries[i] = CommentEntry(Strip(stream[i]))

\* A failed line was followed by a comment line and by a card line; the flag
\* stayed false and both were processed.
C5_Witness ==
    /\ ppc = "returned"
    /\ Len(stream) = 2
    /\ ok = FALSE
    /\ LineMatch(stream[1]) # None
    /\ entries[1].kind = "comment"
    /\ entries[2].kind = "card"

\* C6: every Card Entry of the decklist has count >= 1.
C6_CountsPositive ==
    \A i \in 1..Len(entries) : entries[i].kind = "card" => entries[i].count >= 1

\* The whole line has the line format, the count leading it and the set code,
\* if any, not empty.
WholeLineFormat(line) ==
    LET m == LineMatch(line)
    IN /\ m # None
       /\ m[1].start = 1
       /\ m[1].set_id # None => m[1].set_id[1] # <<>>

\* C8: a line is treated as a card reference only if the whole line has the
\* line format with the count leading it; every other line becomes a Comment
\* Entry holding the trimmed line, and name sanitization is not called on it.
C8_OnlyWholeLinesAreCards ==
    \A i \in 1..Len(entries) :
        ~WholeLineFormat(stream[i]) =>
            entries[i] = CommentEntry(Strip(stream[i])) /\ ~sanitized[i]

(***************************************************************************)
(* Loading the database: threads calling get_cards, which calls            *)
(* _get_database through its lru_cache wrapper.  The wrapper looks the     *)
(* key up, calls the function on a miss without holding any lock, and      *)
(* stores the result when the function returns.                            *)
(***************************************************************************)
Threads == 1..MaxThreads
DatabaseName == "scryfall-default-cards"

\* Positions inside the body of _get_database
LoadPositions == {"get_file", "rate_limit", "in_rate_limit", "download_open",
                  "download_write", "json_load", "add_new_cards", "store"}

InitLoad ==
    /\ tpc = [t \in Threads |-> "idle"]
    /\ lruCache = {}
    /\ lock = 0
    /\ fileOnDisk \in {"absent", "complete"}
    /\ loads = 0
    /\ callsLeft = [t \in Threads |-> MaxCalls]
    /\ RecIdle /\ ScoreIdle /\ ParseIdle

Goto(t, position) == tpc' = [tpc EXCEPT ![t] = position]

\* get_cards(...) is called
StartCall(t) ==
    /\ tpc[t] = "idle"
    /\ callsLeft[t] > 0
    /\ callsLeft' = [callsLeft EXCEPT ![t] = @ - 1]
    /\ Goto(t, "lookup")
    /\ UNCHANGED <<lruCache, lock, fileOnDisk, loads, recVars, scoreVars, parseVars>>

\* The lru_cache wrapper: a hit returns the cached list, a miss calls _get_database
CacheLookup(t) ==
    /\ tpc[t] = "lookup"
    /\ IF DatabaseName \in lruCache
       THEN Goto(t, "filter") /\ loads' = loads
       ELSE Goto(t, "get_file") /\ loads' = loads + 1
    /\ UNCHANGED <<lruCache, lock, fileOnDisk, callsLeft, recVars, scoreVars, parseVars>>

\* get_file: if not file_path.is_file()
GetFileCheck(t) ==
    /\ tpc[t] = "get_file"
    /\ IF fileOnDisk = "absent" THEN Goto(t, "rate_limit") ELSE Goto(t, "json_load")
    /\ UNCHANGED <<lruCache, lock, fileOnDisk, loads, callsLeft, recVars, scoreVars, parseVars>>

\* rate_limit: with _lock
RateLimitAcquire(t) ==
    /\ tpc[t] = "rate_limit"
    /\ lock = 0
    /\ lock' = t
    /\ Goto(t, "in_rate_limit")
    /\ UNCHANGED <<lruCache, fileOnDisk, loads, callsLeft, recVars, scoreVars, parseVars>>

\* rate_limit: the sleep and the timestamp, then the lock is released
RateLimitRelease(t) ==
    /\ tpc[t] = "in_rate_limit"
    /\ lock = t
    /\ lock' = 0
    /\ Goto(t, "download_open")
    /\ UNCHANGED <<lruCache, fileOnDisk, loads, callsLeft, recVars, scoreVars, parseVars>>

\* download: open(dst, 'xb') creates the file, or raises FileExistsError
DownloadOpen(t) ==
    /\ tpc[t] = "download_open"
    /\ IF fileOnDisk = "absent"
       THEN fileOnDisk' = "partial" /\ Goto(t, "download_write")
       ELSE fileOnDisk' = fileOnDisk /\ Goto(t, "raised")
    /\ UNCHANGED <<lruCache, lock, loads, callsLeft, recVars, scoreVars, parseVars>>

\* download: the chunks are written and the file closed
DownloadWrite(t) ==
    /\ tpc[t] = "download_write"
    /\ fileOnDisk' = "complete"
    /\ Goto(t, "json_load")
    /\ UNCHANGED <<lruCache, lock, loads, callsLeft, recVars, scoreVars, parseVars>>

\* json.load(json_file): fails on a file another thread is still writing
JsonLoad(t) ==
    /\ tpc[t] = "json_load"
    /\ IF fileOnDisk = "complete" THEN Goto(t, "add_new_cards") ELSE Goto(t, "raised")
    /\ UNCHANGED <<lruCache, lock, fileOnDisk, loads, callsLeft, recVars, scoreVars, parseVars>>

AddNewCards(t) ==
    /\ tpc[t] = "add_new_cards"
    /\ Goto(t, "store")
    /\ UNCHANGED <<lruCache, lock, fileOnDisk, loads, callsLeft, recVars, scoreVars, parseVars>>

\* _get_database returns and the wrapper stores the result under the key
CacheStore(t) ==
    /\ tpc[t] = "store"
    /\ lruCache' = lruCache \cup {DatabaseName}
    /\ Goto(t, "filter")
    /\ UNCHANGED <<lock, fileOnDisk, loads, callsLeft, recVars, scoreVars, parseVars>>

\* get_cards filters the list and returns; or the exception leaves the call
FinishCall(t) ==
    /\ tpc[t] \in {"filter", "raised"}
    /\ Goto(t, "idle")
    /\ UNCHANGED <<lruCache, lock, fileOnDisk, loads, callsLeft, recVars, scoreVars, parseVars>>

NextLoad ==
    \E t \in Threads :
        \/ StartCall(t)
        \/ CacheLookup(t)
        \/ GetFileCheck(t)
        \/ RateLimitAcquire(t)
        \/ RateLimitRelease(t)
        \/ DownloadOpen(t)
        \/ DownloadWrite(t)
        \/ JsonLoad(t)
        \/ AddNewCards(t)
        \/ CacheStore(t)
        \/ FinishCall(t)

SpecLoad == InitLoad /\ [][NextLoad]_vars

\* C9: under any interleaving the load is executed at most once for the name,
\* and no two threads are inside the load at the same time.
C9_LoadAtMostOnce ==
    /\ loads <= 1
    /\ Cardinality({t \in DOMAIN tpc : tpc[t] \in LoadPositions}) <= 1

====
